---- MODULE Spec2Model ----
(***************************************************************************)
(* A model of kanumi's src/main.rs: process_args, is_image_file,           *)
(* process_only_dirs and process_only_images.  One run of the program is   *)
(* one behaviour; pc is the position of the run inside the function it is  *)
(* executing.  The file system (existing directories, the entries WalkDir  *)
(* yields, the contents of the metadata files) is part of the state and is *)
(* never written by the program.                                           *)
(*                                                                         *)
(* Option<T> is a sequence of length at most one: None == << >> and        *)
(* Some(x) == <<x>>.  A file name is a sequence of one-character strings.  *)
(***************************************************************************)
EXTENDS Integers, Sequences, FiniteSets, TLC

VARIABLES
    args,            \* Cli: generate_config, node_type and the five optional settings
    config,          \* Configuration: the five optional settings
    fsDirs,          \* the directories that exist
    fsListing,       \* what WalkDir yields below the root, in order
    fsMeta,          \* metadata path -> the result of parsing that file
    pc,              \* position of the run
    result,          \* "running", "Ok", "Err" or "Panic"
    err,             \* the error of a run that ended in Err or Panic
    root_dir,        \* root_dir / dir_path, an Option
    metadata_path,   \* the resolved options of process_only_images
    score_filters,
    width_range,
    height_range,
    images,          \* Vec<PathBuf> of process_only_images
    metas,           \* Vec<ImageMeta> of process_only_images
    dirs,            \* Vec<DirEntry> of process_only_dirs
    idx,             \* index of the loop the run is in
    warnings,        \* the warn! lines logged so far
    out,             \* the lines printed on stdout so far
    entry,           \* the argument of a single call of is_image_file
    verdict          \* the value that call returned, an Option

vars == <<args, config, fsDirs, fsListing, fsMeta, pc, result, err, root_dir,
          metadata_path, score_filters, width_range, height_range, images,
          metas, dirs, idx, warnings, out, entry, verdict>>

----------------------------------------------------------------------------
(* Bounds *)

MaxEntries == 3      \* entries WalkDir yields below the root
MaxMetas == 2        \* records in a metadata file
MaxFilters == 2      \* score filters in one list
MaxStemLen == 1      \* characters of a file name before its tail

----------------------------------------------------------------------------
(* Option, sequences *)

None == << >>
Some(x) == <<x>>
IsSome(o) == o # << >>
Unwrap(o) == o[1]

\* Option::or
OrElse(a, b) == IF IsSome(a) THEN a ELSE b

RECURSIVE SeqsUpTo(_, _)
SeqsUpTo(S, n) ==
    IF n = 0 THEN {<< >>}
    ELSE LET shorter == SeqsUpTo(S, n - 1)
         IN  shorter \cup {Append(s, x) : s \in {t \in shorter : Len(t) = n - 1}, x \in S}

Range(s) == {s[i] : i \in 1..Len(s)}

NoRepeat(s) == \A i, j \in 1..Len(s) : i # j => s[i] # s[j]

----------------------------------------------------------------------------
(* File names, str::to_lowercase, str::ends_with, is_image_file *)

\* a byte that is not valid UTF-8: OsStr::to_str gives None on a name holding one
BadByte == "\\xFF"

\* U+0130, whose lower case is the two characters "i", U+0307
CapitalIDot == "U+0130"
CombiningDot == "U+0307"

LowerOf ==
    [c \in {"A", "B", "E", "F", "G", "I", "J", "N", "P", "T", "W", "X", "Z"} |->
        CASE c = "A" -> "a" [] c = "B" -> "b" [] c = "E" -> "e" [] c = "F" -> "f"
          [] c = "G" -> "g" [] c = "I" -> "i" [] c = "J" -> "j" [] c = "N" -> "n"
          [] c = "P" -> "p" [] c = "T" -> "t" [] c = "W" -> "w" [] c = "X" -> "x"
          [] c = "Z" -> "z"]

\* char::to_lowercase: the lower case of one character, a sequence
char_to_lowercase(c) ==
    IF c \in DOMAIN LowerOf THEN <<LowerOf[c]>>
    ELSE IF c = CapitalIDot THEN <<"i", CombiningDot>>
    ELSE <<c>>

RECURSIVE to_lowercase(_)
to_lowercase(s) ==
    IF s = << >> THEN << >>
    ELSE char_to_lowercase(Head(s)) \o to_lowercase(Tail(s))

ends_with(s, suffix) ==
    /\ Len(s) >= Len(suffix)
    /\ SubSeq(s, Len(s) - Len(suffix) + 1, Len(s)) = suffix

\* OsStr::to_str
to_str(name) == IF \E i \in 1..Len(name) : name[i] = BadByte THEN None ELSE Some(name)

is_image_file_NoLower(e) ==
    IF IsSome(to_str(e.name))
    THEN LET file_name == Unwrap(to_str(e.name))
         IN  \/ ends_with(file_name, <<".", "g", "i", "f">>)
             \/ ends_with(file_name, <<".", "j", "p", "e", "g">>)
             \/ ends_with(file_name, <<".", "j", "p", "g">>)
             \/ ends_with(file_name, <<".", "p", "n", "g">>)
             \/ ends_with(file_name, <<".", "w", "e", "b", "p">>)
    ELSE FALSE

is_image_file(e) ==
    IF IsSome(to_str(e.name))
    THEN LET file_name == Unwrap(to_str(e.name))
         IN  \/ ends_with(to_lowercase(file_name), <<".", "g", "i", "f">>)
             \/ ends_with(to_lowercase(file_name), <<".", "j", "p", "e", "g">>)
             \/ ends_with(to_lowercase(file_name), <<".", "j", "p", "g">>)
             \/ ends_with(to_lowercase(file_name), <<".", "p", "n", "g">>)
             \/ ends_with(to_lowercase(file_name), <<".", "w", "e", "b", "p">>)
    ELSE FALSE

----------------------------------------------------------------------------
(* The file system: directories, WalkDir entries, paths, dimensions *)

\* the two root directories a run can name; a directory is known by its name
DirA == <<"p", "i", "c", "s">>
DirC == <<"w", ".", "p", "n", "g">>

\* a metadata path is a string
MetaA == "metaA"
MetaC == "metaC"

\* what WalkDir yields for one node below the root: Err (ok = FALSE) or a DirEntry
\* with its file name and file type; dims is what probing the node's dimensions
\* gives, an Option of <<width, height>>
EntryA == [ok |-> TRUE, name |-> <<"a", ".", "p", "n", "g">>, is_dir |-> FALSE,
           dims |-> Some(<<3, 2>>)]
EntryB == [ok |-> TRUE, name |-> <<"b", ".", "J", "P", "G">>, is_dir |-> FALSE,
           dims |-> Some(<<2, 3>>)]
EntryC == [ok |-> TRUE, name |-> <<"c", ".", "t", "x", "t">>, is_dir |-> FALSE,
           dims |-> None]
EntryD == [ok |-> TRUE, name |-> <<"d", ".", "p", "n", "g">>, is_dir |-> TRUE,
           dims |-> None]
EntryErr == [ok |-> FALSE, name |-> <<"e">>, is_dir |-> FALSE, dims |-> None]

Entries == {EntryA, EntryB, EntryC, EntryD, EntryErr}

\* a path is the sequence of its components
RootPath(root) == <<root>>
PathOf(root, e) == <<root, e.name>>

\* WalkDir::new(root).into_iter(): the root itself first, then the nodes below it
WalkDir(root) ==
    <<[ok |-> TRUE, name |-> root, is_dir |-> TRUE, path |-> RootPath(root)]>>
    \o [i \in 1..Len(fsListing) |->
          [ok |-> fsListing[i].ok, name |-> fsListing[i].name,
           is_dir |-> fsListing[i].is_dir, path |-> PathOf(root, fsListing[i])]]

\* the dimension probe of image_matches_dims: None when the file cannot be read
\* as an image
probe(img) ==
    IF /\ Len(img) = 2
       /\ \E i \in 1..Len(fsListing) : fsListing[i].ok /\ fsListing[i].name = img[2]
    THEN (CHOOSE e \in Range(fsListing) : e.ok /\ e.name = img[2]).dims
    ELSE None

in_range(value, range) ==
    /\ range.min = None \/ value >= Unwrap(range.min)
    /\ range.max = None \/ value <= Unwrap(range.max)

image_matches_dims(img, w_range, h_range) ==
    IF w_range = None /\ h_range = None THEN TRUE
    ELSE LET d == probe(img)
         IN  IF d = None THEN FALSE
             ELSE /\ w_range = None \/ in_range(Unwrap(d)[1], Unwrap(w_range))
                  /\ h_range = None \/ in_range(Unwrap(d)[2], Unwrap(h_range))

----------------------------------------------------------------------------
(* Metadata records and score filters *)

image_score_matches(meta, score_filter) ==
    CASE score_filter.op = "<"  -> meta.score < score_filter.threshold
      [] score_filter.op = "<=" -> meta.score <= score_filter.threshold
      [] score_filter.op = "="  -> meta.score = score_filter.threshold
      [] score_filter.op = ">=" -> meta.score >= score_filter.threshold
      [] score_filter.op = ">"  -> meta.score > score_filter.threshold

\* the records of a parsed file, one per distinct path: of several records with
\* the same path the last one loaded stays
one_per_path(records) ==
    LET last(i) == \A j \in (i + 1)..Len(records) : records[j].path # records[i].path
        RECURSIVE from(_)
        from(i) == IF i > Len(records) THEN << >>
                   ELSE IF last(i) THEN <<records[i]>> \o from(i + 1)
                   ELSE from(i + 1)
    IN  from(1)

\* utils::load_image_metas: Err, or Ok with the list of records
load_image_metas(path) ==
    IF fsMeta[path].ok THEN [ok |-> TRUE, metas |-> one_per_path(fsMeta[path].records)]
    ELSE [ok |-> FALSE, metas |-> << >>]

----------------------------------------------------------------------------
(* The steps of process_only_dirs and process_only_images on values *)

\* args.directory.clone().unwrap_or(config.root_images_dir.clone().expect(..))
\* unwrap_or takes its argument by value: expect runs, and panics on None,
\* before unwrap_or looks at args.directory
dirs_root_dir(a, c) ==
    IF c.root_images_dir = None THEN [panic |-> TRUE, value |-> None]
    ELSE [panic |-> FALSE,
          value |-> Some(IF IsSome(a.directory) THEN Unwrap(a.directory)
                         ELSE Unwrap(c.root_images_dir))]

\* .filter_map(Result::ok).filter(|entry| entry.file_type().is_dir())
dirs_of_walk(walk) == SelectSeq(walk, LAMBDA e : e.ok /\ e.is_dir)

\* .filter_map(Result::ok).filter(|node| is_image_file(node)).map(|entry| entry.path())
images_of_walk(walk) ==
    LET kept == SelectSeq(walk, LAMBDA e : e.ok /\ is_image_file(e))
    IN  [i \in 1..Len(kept) |-> kept[i].path]

\* images.retain(|img| utils::image_matches_dims(img, &width_range, &height_range))
dims_retain(imgs, w_range, h_range) ==
    SelectSeq(imgs, LAMBDA img : image_matches_dims(img, w_range, h_range))

\* metas.iter().find(|meta| meta.path == *image)
find_meta(ms, image) ==
    IF \E i \in 1..Len(ms) : ms[i].path = image
    THEN Some(ms[CHOOSE i \in 1..Len(ms) :
                   /\ ms[i].path = image
                   /\ \A j \in 1..(i - 1) : ms[j].path # image])
    ELSE None

\* metas.retain(|meta| utils::image_score_matches(meta, score_filter))
score_retain(ms, score_filter) ==
    SelectSeq(ms, LAMBDA meta : image_score_matches(meta, score_filter))

\* as images_retain, but built from the records: their paths that are images
images_retain_ByRecord(imgs, ms) ==
    LET kept == SelectSeq(ms, LAMBDA meta : \E i \in 1..Len(imgs) : imgs[i] = meta.path)
    IN  [i \in 1..Len(kept) |-> kept[i].path]

\* as images_retain, but an empty list of score filters leaves the images alone
images_retain_UnlessNoFilter(imgs, ms) ==
    IF score_filters = Some(<< >>) THEN imgs
    ELSE SelectSeq(imgs, LAMBDA img : \E i \in 1..Len(ms) : ms[i].path = img)

\* as images_retain, but against the records as loaded, not the narrowed ones
images_retain_AnyLoaded(imgs, ms) ==
    LET loaded == load_image_metas(Unwrap(metadata_path)).metas
    IN  SelectSeq(imgs, LAMBDA img : \E i \in 1..Len(loaded) : loaded[i].path = img)

\* images.retain(|img| metas.iter().any(|meta| meta.path == *img))
images_retain(imgs, ms) ==
    SelectSeq(imgs, LAMBDA img : \E i \in 1..Len(ms) : ms[i].path = img)

----------------------------------------------------------------------------
(* The run *)

\* the text print!("{}", toml) writes for the default configuration
TomlText == <<<<"[", "t", "o", "m", "l", "]">>>>

inputs == <<args, config, fsDirs, fsListing, fsMeta>>
options == <<metadata_path, score_filters, width_range, height_range>>
single == <<entry, verdict>>

Return(res, e) ==
    /\ pc' = "done"
    /\ result' = res
    /\ err' = e

Goto(p) ==
    /\ pc' = p
    /\ UNCHANGED <<result, err>>

process_args ==
    /\ pc = "process_args"
    /\ IF args.generate_config
       THEN /\ out' = Append(out, TomlText)
            /\ Return("Ok", "")
       ELSE /\ Goto(IF args.node_type = "Directory" THEN "dirs_resolve"
                    ELSE "img_resolve_dir")
            /\ UNCHANGED out
    /\ UNCHANGED <<inputs, root_dir, options, images, metas, dirs, idx, warnings, single>>

DirsResolve ==
    /\ pc = "dirs_resolve"
    /\ LET r == dirs_root_dir(args, config)
       IN  IF r.panic
           THEN /\ Return("Panic", "root dir not provided!")
                /\ UNCHANGED root_dir
           ELSE /\ root_dir' = r.value
                /\ Goto("dirs_exists")
    /\ UNCHANGED <<inputs, options, images, metas, dirs, idx, warnings, out, single>>

DirsExists ==
    /\ pc = "dirs_exists"
    /\ IF Unwrap(root_dir) \notin fsDirs
       THEN Return("Err", "could not find directory")
       ELSE Goto("dirs_walk")
    /\ UNCHANGED <<inputs, root_dir, options, images, metas, dirs, idx, warnings, out,
                   single>>

DirsWalk ==
    /\ pc = "dirs_walk"
    /\ dirs' = dirs_of_walk(WalkDir(Unwrap(root_dir)))
    /\ idx' = 1
    /\ Goto("dirs_print")
    /\ UNCHANGED <<inputs, root_dir, options, images, metas, warnings, out, single>>

DirsPrint ==
    /\ pc = "dirs_print"
    /\ IF idx <= Len(dirs)
       THEN /\ out' = Append(out, dirs[idx].path)
            /\ idx' = idx + 1
            /\ Goto("dirs_print")
       ELSE /\ Return("Ok", "")
            /\ UNCHANGED <<out, idx>>
    /\ UNCHANGED <<inputs, root_dir, options, images, metas, dirs, warnings, single>>

ImgResolveDir ==
    /\ pc = "img_resolve_dir"
    /\ LET dir_path == OrElse(args.directory, config.root_images_dir)
       IN  IF dir_path = None
           THEN /\ Return("Err", "root directory must be specified")
                /\ UNCHANGED root_dir
           ELSE /\ root_dir' = dir_path
                /\ Goto("img_exists")
    /\ UNCHANGED <<inputs, options, images, metas, dirs, idx, warnings, out, single>>

ImgExists ==
    /\ pc = "img_exists"
    /\ IF Unwrap(root_dir) \notin fsDirs
       THEN Return("Err", "could not find directory")
       ELSE Goto("img_resolve_options")
    /\ UNCHANGED <<inputs, root_dir, options, images, metas, dirs, idx, warnings, out,
                   single>>

ImgResolveOptions ==
    /\ pc = "img_resolve_options"
    /\ metadata_path' = OrElse(args.metadata_path, config.metadata_path)
    /\ score_filters' = OrElse(args.score_filters, config.score_filters)
    /\ width_range' = OrElse(args.width_range, config.width_range)
    /\ height_range' = OrElse(args.height_range, config.height_range)
    /\ Goto("img_walk")
    /\ UNCHANGED <<inputs, root_dir, images, metas, dirs, idx, warnings, out, single>>

ImgWalk ==
    /\ pc = "img_walk"
    /\ images' = images_of_walk(WalkDir(Unwrap(root_dir)))
    /\ Goto("img_dims")
    /\ UNCHANGED <<inputs, root_dir, options, metas, dirs, idx, warnings, out, single>>

ImgDims ==
    /\ pc = "img_dims"
    /\ images' = IF IsSome(width_range) \/ IsSome(height_range)
                 THEN dims_retain(images, width_range, height_range)
                 ELSE images
    /\ Goto("img_score_check")
    /\ UNCHANGED <<inputs, root_dir, options, metas, dirs, idx, warnings, out, single>>

\* as ImgScoreCheck, but a missing metadata path skips the score filters
ImgScoreCheck_SkipsWithoutMetadata ==
    /\ pc = "img_score_check"
    /\ IF score_filters = None \/ metadata_path = None
       THEN /\ Goto("img_print")
            /\ idx' = 1
       ELSE /\ Goto("img_load")
            /\ UNCHANGED idx
    /\ UNCHANGED <<inputs, root_dir, options, images, metas, dirs, warnings, out, single>>

ImgScoreCheck ==
    /\ pc = "img_score_check"
    /\ IF score_filters = None
       THEN /\ Goto("img_print")
            /\ idx' = 1
       ELSE IF metadata_path = None
       THEN /\ Return("Err", "No metadata file provided!")
            /\ UNCHANGED idx
       ELSE /\ Goto("img_load")
            /\ UNCHANGED idx
    /\ UNCHANGED <<inputs, root_dir, options, images, metas, dirs, warnings, out, single>>

\* as ImgLoad, but the candidates are printed before the file is parsed
ImgLoad_PrintsFirst ==
    /\ pc = "img_load"
    /\ out' = out \o images
    /\ LET loaded == load_image_metas(Unwrap(metadata_path))
       IN  IF loaded.ok
           THEN /\ metas' = loaded.metas
                /\ idx' = 1
                /\ Goto("img_warn")
           ELSE /\ Return("Err", "metadata load error")
                /\ UNCHANGED <<metas, idx>>
    /\ UNCHANGED <<inputs, root_dir, options, images, dirs, warnings, single>>

ImgLoad ==
    /\ pc = "img_load"
    /\ LET loaded == load_image_metas(Unwrap(metadata_path))
       IN  IF loaded.ok
           THEN /\ metas' = loaded.metas
                /\ idx' = 1
                /\ Goto("img_warn")
           ELSE /\ Return("Err", "metadata load error")
                /\ UNCHANGED <<metas, idx>>
    /\ UNCHANGED <<inputs, root_dir, options, images, dirs, warnings, out, single>>

\* as ImgWarn, but an image is looked up among the records that pass the filters
ImgWarn_AfterFilters ==
    /\ pc = "img_warn"
    /\ IF idx <= Len(images)
       THEN /\ warnings' =
                 IF find_meta(SelectSeq(metas, LAMBDA meta :
                                \A i \in 1..Len(Unwrap(score_filters)) :
                                    image_score_matches(meta, Unwrap(score_filters)[i])),
                              images[idx]) = None
                 THEN Append(warnings, images[idx])
                 ELSE warnings
            /\ idx' = idx + 1
            /\ Goto("img_warn")
       ELSE /\ idx' = 1
            /\ Goto("img_filter")
            /\ UNCHANGED warnings
    /\ UNCHANGED <<inputs, root_dir, options, images, metas, dirs, out, single>>

ImgWarn ==
    /\ pc = "img_warn"
    /\ IF idx <= Len(images)
       THEN /\ warnings' = IF find_meta(metas, images[idx]) = None
                           THEN Append(warnings, images[idx])
                           ELSE warnings
            /\ idx' = idx + 1
            /\ Goto("img_warn")
       ELSE /\ idx' = 1
            /\ Goto("img_filter")
            /\ UNCHANGED warnings
    /\ UNCHANGED <<inputs, root_dir, options, images, metas, dirs, out, single>>

\* as ImgFilter, but every filter is applied to the records as loaded
ImgFilter_OnLoaded ==
    /\ pc = "img_filter"
    /\ IF idx <= Len(Unwrap(score_filters))
       THEN /\ metas' = score_retain(load_image_metas(Unwrap(metadata_path)).metas,
                                     Unwrap(score_filters)[idx])
            /\ idx' = idx + 1
            /\ Goto("img_filter")
       ELSE /\ Goto("img_retain")
            /\ UNCHANGED <<metas, idx>>
    /\ UNCHANGED <<inputs, root_dir, options, images, dirs, warnings, out, single>>

ImgFilter ==
    /\ pc = "img_filter"
    /\ IF idx <= Len(Unwrap(score_filters))
       THEN /\ metas' = score_retain(metas, Unwrap(score_filters)[idx])
            /\ idx' = idx + 1
            /\ Goto("img_filter")
       ELSE /\ Goto("img_retain")
            /\ UNCHANGED <<metas, idx>>
    /\ UNCHANGED <<inputs, root_dir, options, images, dirs, warnings, out, single>>

ImgRetain ==
    /\ pc = "img_retain"
    /\ images' = images_retain(images, metas)
    /\ idx' = 1
    /\ Goto("img_print")
    /\ UNCHANGED <<inputs, root_dir, options, metas, dirs, warnings, out, single>>

ImgPrint ==
    /\ pc = "img_print"
    /\ IF idx <= Len(images)
       THEN /\ out' = Append(out, images[idx])
            /\ idx' = idx + 1
            /\ Goto("img_print")
       ELSE /\ Return("Ok", "")
            /\ UNCHANGED <<out, idx>>
    /\ UNCHANGED <<inputs, root_dir, options, images, metas, dirs, warnings, single>>

\* one call of is_image_file on a directory entry
Classify ==
    /\ pc = "classify"
    /\ verdict' = Some(is_image_file(entry))
    /\ pc' = "done"
    /\ UNCHANGED <<inputs, result, err, root_dir, options, images, metas, dirs, idx,
                   warnings, out, entry>>

----------------------------------------------------------------------------
(* Inputs *)

Range_(lo, hi) == [min |-> lo, max |-> hi]

NoArgs == [generate_config |-> FALSE, node_type |-> "Image", directory |-> None,
           metadata_path |-> None, score_filters |-> None, width_range |-> None,
           height_range |-> None]

NoConfig == [root_images_dir |-> None, metadata_path |-> None, score_filters |-> None,
             width_range |-> None, height_range |-> None]

Meta(dir, e, score) == [path |-> PathOf(dir, e), score |-> score]

NoFile == [ok |-> FALSE, records |-> << >>]
File(records) == [ok |-> TRUE, records |-> records]

Locals ==
    /\ result = "running"
    /\ err = ""
    /\ root_dir = None
    /\ metadata_path = None
    /\ score_filters = None
    /\ width_range = None
    /\ height_range = None
    /\ images = << >>
    /\ metas = << >>
    /\ dirs = << >>
    /\ idx = 1
    /\ warnings = << >>
    /\ out = << >>

\* every combination of given and missing arguments and configuration values, on
\* one directory tree and one pair of metadata files
Init ==
    /\ args \in [generate_config : BOOLEAN,
                 node_type : {"Directory", "Image"},
                 directory : {None, Some(DirA)},
                 metadata_path : {None, Some(MetaA)},
                 score_filters : {None, Some(<< >>),
                                  Some(<<[op |-> "=", threshold |-> 2]>>)},
                 width_range : {None, Some(Range_(Some(2), None))},
                 height_range : {None, Some(Range_(Some(3), None))}]
    /\ config \in [root_images_dir : {None, Some(DirC)},
                   metadata_path : {None, Some(MetaC)},
                   score_filters : {None, Some(<<[op |-> ">", threshold |-> 1]>>)},
                   width_range : {None, Some(Range_(None, Some(1)))},
                   height_range : {None, Some(Range_(None, Some(2)))}]
    /\ fsDirs \in SUBSET {DirA, DirC}
    /\ fsListing = <<EntryA, EntryErr, EntryD, EntryC, EntryB>>
    /\ fsMeta = [p \in {MetaA, MetaC} |->
                   IF p = MetaA
                   THEN File(<<Meta(DirA, EntryA, 2), Meta(DirC, EntryB, 2),
                               Meta(DirC, EntryA, 1)>>)
                   ELSE NoFile]
    /\ pc = "process_args"
    /\ Locals
    /\ entry = [name |-> << >>]
    /\ verdict = None

Next ==
    \/ process_args
    \/ DirsResolve
    \/ DirsExists
    \/ DirsWalk
    \/ DirsPrint
    \/ ImgResolveDir
    \/ ImgExists
    \/ ImgResolveOptions
    \/ ImgWalk
    \/ ImgDims
    \/ ImgScoreCheck
    \/ ImgLoad
    \/ ImgWarn
    \/ ImgFilter
    \/ ImgRetain
    \/ ImgPrint

Spec == Init /\ [][Next]_vars

----------------------------------------------------------------------------
(* Image mode over every directory listing, metadata file and filter list *)

ImgEntries == {EntryA, EntryB, EntryC, EntryD}

Listings == {l \in SeqsUpTo(ImgEntries, MaxEntries) : NoRepeat(l)}

Records == {Meta(DirA, EntryA, 1), Meta(DirA, EntryA, 2), Meta(DirA, EntryB, 2)}

Files == {NoFile} \cup {File(r) : r \in SeqsUpTo(Records, MaxMetas)}

Filters == {[op |-> ">=", threshold |-> 2], [op |-> "<=", threshold |-> 2]}

FilterLists == SeqsUpTo(Filters, MaxFilters)

OneFile == File(<<Meta(DirA, EntryA, 2)>>)

\* a run that stops before it walks the directory, or before it reads the
\* metadata file, is started on one listing, or one file, only
InitImg ==
    /\ args \in {[NoArgs EXCEPT !.directory = d, !.metadata_path = m,
                                !.score_filters = f, !.width_range = w] :
                    d \in {None, Some(DirA)}, m \in {None, Some(MetaA)},
                    f \in {None} \cup {Some(l) : l \in FilterLists},
                    w \in {None, Some(Range_(Some(2), None))}}
    /\ config = NoConfig
    /\ fsDirs \in {{DirA}, {}}
    /\ fsListing \in Listings
    /\ fsMeta \in {[p \in {MetaA, MetaC} |-> IF p = MetaA THEN f ELSE NoFile] :
                     f \in Files}
    /\ (args.directory = None \/ fsDirs = {}) =>
           /\ fsListing = <<EntryA>>
           /\ args = [NoArgs EXCEPT !.directory = args.directory]
    /\ (args.directory = None \/ fsDirs = {} \/ args.metadata_path = None
          \/ args.score_filters = None) =>
           fsMeta[MetaA] = OneFile
    /\ pc = "process_args"
    /\ Locals
    /\ entry = [name |-> << >>]
    /\ verdict = None

\* process_args in a run that does not ask for the default configuration
process_image_args ==
    /\ ~args.generate_config
    /\ args.node_type = "Image"
    /\ process_args

NextImg ==
    \/ process_image_args
    \/ ImgResolveDir
    \/ ImgExists
    \/ ImgResolveOptions
    \/ ImgWalk
    \/ ImgDims
    \/ ImgScoreCheck
    \/ ImgLoad
    \/ ImgWarn
    \/ ImgFilter
    \/ ImgRetain
    \/ ImgPrint

SpecImg == InitImg /\ [][NextImg]_vars

----------------------------------------------------------------------------
(* is_image_file over file names *)

UpperOf(c) == CHOOSE u \in DOMAIN LowerOf : LowerOf[u] = c

IsLowerLetter(c) == \E u \in DOMAIN LowerOf : LowerOf[u] = c

\* a word in every mix of upper and lower case
RECURSIVE CaseVariants(_)
CaseVariants(w) ==
    IF w = << >> THEN {<< >>}
    ELSE LET rest == CaseVariants(Tail(w))
             heads == IF IsLowerLetter(Head(w)) THEN {Head(w), UpperOf(Head(w))}
                      ELSE {Head(w)}
         IN  {<<h>> \o r : h \in heads, r \in rest}

Words ==
    {<<"g", "i", "f">>, <<"j", "p", "e", "g">>, <<"j", "p", "g">>, <<"p", "n", "g">>,
     <<"w", "e", "b", "p">>, <<"t", "x", "t">>, <<"p", "n">>, <<"j", "p", "e">>,
     <<"p", "n", "g", "x">>, <<"g", CapitalIDot, "f">>, << >>}

Tails ==
    UNION {CaseVariants(w) \cup CaseVariants(<<".">> \o w)
             \cup CaseVariants(<<".">> \o w \o <<".">>) : w \in Words}

StemChars == {"a", "Z", ".", BadByte}

Names == {s \o t : s \in SeqsUpTo(StemChars, MaxStemLen), t \in Tails}

InitExt ==
    /\ args = NoArgs
    /\ config = NoConfig
    /\ fsDirs = {}
    /\ fsListing = << >>
    /\ fsMeta = [p \in {MetaA, MetaC} |-> NoFile]
    /\ pc = "classify"
    /\ Locals
    /\ entry \in {[name |-> n] : n \in Names}
    /\ verdict = None

NextExt == Classify

SpecExt == InitExt /\ [][NextExt]_vars

----------------------------------------------------------------------------
(* Properties of a run *)

ImageRun == ~args.generate_config /\ args.node_type = "Image"

DirectoryRun == ~args.generate_config /\ args.node_type = "Directory"

\* C1: in image mode, when the argument or the configuration gives score filters
\* and neither gives a metadata path, the run prints no path and ends in an error.
C1_MissingMetadataFails ==
    ( /\ ImageRun
      /\ IsSome(args.score_filters) \/ IsSome(config.score_filters)
      /\ args.metadata_path = None
      /\ config.metadata_path = None )
    => /\ out = << >>
       /\ pc = "done" => result = "Err"

\* the filters come from the configuration, a dimension range is set, candidates
\* are left after the dimension step, and the run ended for want of a metadata path
C1_Witness ==
    /\ pc = "done"
    /\ err = "No metadata file provided!"
    /\ args.score_filters = None
    /\ IsSome(width_range)
    /\ images # << >>

\* C2: every setting the run uses is the argument when one is given and the
\* configuration value otherwise, in directory mode and in image mode; a run given
\* a directory argument does not fail for want of a configured root directory.
C2_ArgumentTakesPrecedence ==
    /\ (~args.generate_config /\ pc \notin {"process_args", "dirs_resolve",
                                            "img_resolve_dir"} /\ IsSome(args.directory))
       => /\ root_dir = args.directory
          /\ err \notin {"root dir not provided!", "root directory must be specified"}
    /\ (~args.generate_config /\ pc \notin {"process_args", "dirs_resolve",
                                            "img_resolve_dir"} /\ args.directory = None
          /\ IsSome(config.root_images_dir))
       => root_dir = config.root_images_dir
    /\ (ImageRun /\ pc \notin {"process_args", "img_resolve_dir", "img_exists",
                               "img_resolve_options"} /\ result \in {"running", "Ok"})
       => /\ metadata_path = IF IsSome(args.metadata_path) THEN args.metadata_path
                             ELSE config.metadata_path
          /\ score_filters = IF IsSome(args.score_filters) THEN args.score_filters
                             ELSE config.score_filters
          /\ width_range = IF IsSome(args.width_range) THEN args.width_range
                           ELSE config.width_range
          /\ height_range = IF IsSome(args.height_range) THEN args.height_range
                            ELSE config.height_range

\* C3: a run that ended in an error, or panicked, has printed nothing.
C3_NoOutputBeforeError ==
    result \in {"Err", "Panic"} => out = << >>

\* the metadata file failed to parse while candidates were waiting to be printed
C3_Witness ==
    /\ pc = "done"
    /\ result = "Err"
    /\ err = "metadata load error"
    /\ images # << >>

----------------------------------------------------------------------------
(* Properties of an image-mode run *)

\* the paths WalkDir yields, in order
Enumerated == 
    LET walk == SelectSeq(WalkDir(Unwrap(root_dir)), LAMBDA e : e.ok)
    IN  [i \in 1..Len(walk) |-> walk[i].path]

\* the candidate list after the dimension step
AfterDims ==
    LET all == images_of_walk(WalkDir(Unwrap(root_dir)))
    IN  IF IsSome(width_range) \/ IsSome(height_range)
        THEN SelectSeq(all, LAMBDA img : image_matches_dims(img, width_range, height_range))
        ELSE all

\* the records load_image_metas returned
Loaded == load_image_metas(Unwrap(metadata_path)).metas

\* the records of the metadata file as they stand in it
Source == fsMeta[Unwrap(metadata_path)].records

PassesAll(meta, filters) ==
    \A f \in Range(filters) : image_score_matches(meta, f)

\* the run loaded the metadata and went on to filter by score
ScoreFiltered ==
    /\ IsSome(score_filters)
    /\ pc \in {"img_filter", "img_retain", "img_print", "done"}
    /\ result \in {"running", "Ok"}

IsSubsequence(a, b) ==
    \E f \in [1..Len(a) -> 1..Len(b)] :
        /\ \A i \in 1..Len(a) : a[i] = b[f[i]]
        /\ \A i, j \in 1..Len(a) : i < j => f[i] < f[j]

\* C4: what an image-mode run has printed is a subsequence of the enumeration:
\* the same paths, in the same relative order, none twice; so is the candidate list
\* after every filter step.
C4_OutputIsSubsequence ==
    (ImageRun /\ IsSome(root_dir))
    => /\ IsSubsequence(out, Enumerated)
       /\ IsSubsequence(images, Enumerated)

\* both filter steps ran and two paths were printed
C4_Witness ==
    /\ pc = "done"
    /\ result = "Ok"
    /\ IsSome(width_range)
    /\ IsSome(score_filters)
    /\ Unwrap(score_filters) # << >>
    /\ Len(out) = 2
    /\ Len(Enumerated) > 3

\* C5: when score filters are set, the empty list too, every printed path is the
\* path of a loaded metadata record.
C5_OutputHasMetadata ==
    (ImageRun /\ IsSome(score_filters))
    => \A i \in 1..Len(out) : \E m \in Range(Loaded) : m.path = out[i]

\* the list of filters is empty, a path was printed and a candidate with no record
\* was not
C5_Witness ==
    /\ pc = "done"
    /\ result = "Ok"
    /\ score_filters = Some(<< >>)
    /\ out # << >>
    /\ \E img \in Range(AfterDims) :
          /\ img \notin Range(out)
          /\ \A m \in Range(Loaded) : m.path # img

\* the last record of the file with that path
LastRecord(img) ==
    Source[CHOOSE i \in 1..Len(Source) :
             /\ Source[i].path = img
             /\ \A j \in (i + 1)..Len(Source) : Source[j].path # img]

C8_CandidatesAreFiles ==
    (ImageRun /\ IsSome(root_dir))
    => \A e \in Range(WalkDir(Unwrap(root_dir))) :
          (e.ok /\ e.is_dir) => (e.path \notin Range(images) /\ e.path \notin Range(out))

\* C9: the score step depends on the set of filters only: after k filters the
\* records left are those passing each of them, and the printed list is the
\* candidates for which a loaded record of that path passes every filter.
C9_ScoreStepIsConjunction ==
    /\ (ImageRun /\ pc = "img_filter")
       => metas = SelectSeq(Loaded, LAMBDA m :
                     PassesAll(m, SubSeq(Unwrap(score_filters), 1, idx - 1)))
    /\ (ImageRun /\ ScoreFiltered /\ pc = "done")
       => out = SelectSeq(AfterDims, LAMBDA img :
                    \E m \in Range(Loaded) :
                        m.path = img /\ PassesAll(m, Unwrap(score_filters)))

\* the same filter was given twice; it kept one candidate and dropped another
\* that has a record
C9_Witness ==
    /\ pc = "done"
    /\ result = "Ok"
    /\ IsSome(score_filters)
    /\ Len(Unwrap(score_filters)) = 2
    /\ Unwrap(score_filters)[1] = Unwrap(score_filters)[2]
    /\ out # << >>
    /\ \E img \in Range(AfterDims) :
          /\ img \notin Range(out)
          /\ \E m \in Range(Loaded) : m.path = img

HasNoRecord(img) == \A m \in Range(Loaded) : m.path # img

\* C10: with score filters set and the metadata loaded, the warnings are the
\* candidates left by the dimension step that have no record, one each, in
\* candidate order, logged while the metadata set is still as loaded.
C10_WarningsForMissingMetadata ==
    /\ (ImageRun /\ pc = "img_warn")
       => /\ metas = Loaded
          /\ warnings = SelectSeq(SubSeq(AfterDims, 1, idx - 1), HasNoRecord)
    /\ (ImageRun /\ ScoreFiltered)
       => warnings = SelectSeq(AfterDims, HasNoRecord)

\* a warning was logged; a candidate with a record failed a filter; and an image
\* with no record was removed by the dimension step
C10_Witness ==
    /\ pc = "done"
    /\ result = "Ok"
    /\ IsSome(score_filters)
    /\ warnings # << >>
    /\ \E img \in Range(AfterDims) : ~HasNoRecord(img) /\ img \notin Range(out)
    /\ \E img \in Range(images_of_walk(WalkDir(Unwrap(root_dir)))) :
          img \notin Range(AfterDims) /\ HasNoRecord(img)

----------------------------------------------------------------------------
(* Properties of is_image_file *)

Extensions ==
    {<<"g", "i", "f">>, <<"j", "p", "e", "g">>, <<"j", "p", "g">>, <<"p", "n", "g">>,
     <<"w", "e", "b", "p">>}

\* the name, lower-cased, ends with a dot followed by the extension
HasExtension(name, x) ==
    LET lower == to_lowercase(name)
        at == Len(lower) - Len(x)
    IN  /\ at >= 1
        /\ lower[at] = "."
        /\ \A i \in 1..Len(x) : lower[at + i] = x[i]

IsText(name) == \A i \in 1..Len(name) : name[i] # BadByte

\* C6: is_image_file is true exactly of the names that are text and, lower-cased,
\* end with .gif, .jpeg, .jpg, .png or .webp; it is false of a name with no dot
\* and of a name that is not text.
C6_ExtensionMatching ==
    (pc = "done" /\ IsSome(verdict))
    => /\ Unwrap(verdict) <=> /\ IsText(entry.name)
                              /\ \E x \in Extensions : HasExtension(entry.name, x)
       /\ (\A i \in 1..Len(entry.name) : entry.name[i] # ".") => ~Unwrap(verdict)
       /\ ~IsText(entry.name) => ~Unwrap(verdict)

\* a name with upper-case letters was classified as an image
C6_Witness ==
    /\ pc = "done"
    /\ verdict = Some(TRUE)
    /\ to_lowercase(entry.name) # entry.name
    /\ Len(entry.name) > 5

====
